---- MODULE Spec2Model ----
(***************************************************************************)
(* Model of scrape_codebase (75.py): a single-threaded walk of a directory *)
(* tree that copies the first LINES_TO_COPY lines of every non-excluded    *)
(* text file into one markdown document.                                   *)
(*                                                                         *)
(* A name is a sequence of chunks, "." being the dot chunk; a path is a    *)
(* sequence of names relative to START_DIR; file content is a sequence of  *)
(* tokens (text, space, newline, undecodable byte, and the tokens the      *)
(* document itself is made of).                                            *)
(***************************************************************************)
EXTENDS Integers, Sequences, FiniteSets, TLC

(* ---------------------------- bounds ----------------------------------- *)
MaxFrags == 2
MaxRuns == 2

(* ------------------------- configuration ------------------------------- *)
EXCLUDE_DIRS ==
    { <<"node_modules">>, <<".", "git">>, <<"venv">>, <<".", "venv">>,
      <<"dist">>, <<"build">>, <<"__pycache__">>, <<".", "svn">>,
      <<".", "hg">>, <<"bin">>, <<"obj">> }

EXCLUDE_FILES ==
    { <<".", "DS_Store">>, <<"package-lock", ".", "json">>,
      <<"yarn", ".", "lock">>, <<"npm-debug", ".", "log">>, <<".", "env">> }

BinaryExtNames ==
    { "png", "jpg", "jpeg", "gif", "bmp", "ico", "svg", "webp",
      "woff", "woff2", "ttf", "eot",
      "mp4", "webm", "ogg", "mp3", "wav", "mov",
      "zip", "tar", "gz", "rar", "7z",
      "pdf", "doc", "docx", "xls", "xlsx", "ppt", "pptx",
      "exe", "dll", "so", "a", "o", "lib", "class", "pyc" }

BINARY_EXTENSIONS == { <<".", e>> : e \in BinaryExtNames }

LINES_TO_COPY == 75

OUTPUT_FILE == <<"code_snapshot", ".", "md">>

START_DIR == <<>>

(* ------------------------------ tokens --------------------------------- *)
Tok(kind) == [k |-> kind, path |-> <<>>, n |-> 0, s |-> ""]

TXT == Tok("txt")
SP == Tok("sp")
NL == Tok("nl")
BAD == Tok("bad")
Title == Tok("title")
Rule == Tok("rule")

Scraped(count) == [k |-> "scraped", path |-> <<>>, n |-> count, s |-> ""]

H2(rel) == [k |-> "h2", path |-> rel, n |-> 0, s |-> ""]

Fence(lang) == [k |-> "fence", path |-> <<>>, n |-> 0, s |-> lang]

IsSpace(t) == t.k \in {"sp", "nl"}

(* ------------------------- string functions ---------------------------- *)
\* str.lower on one chunk; the chunks of the model with upper-case letters
LowerChunk(c) ==
    CASE c = "PNG" -> "png"
      [] c = "PY" -> "py"
      [] OTHER -> c

Lower(name) == [i \in 1..Len(name) |-> LowerChunk(name[i])]

\* os.path.splitext(filename)[1]: from the last dot on, unless only dots
\* precede that dot (leading dots belong to the root, not to the extension)
SplitExt(name) ==
    LET dots == {i \in 1..Len(name) : name[i] = "."}
    IN  IF dots = {} THEN <<>>
        ELSE LET dotIndex == CHOOSE i \in dots : \A j \in dots : j <= i
             IN  IF \E j \in 1..(dotIndex - 1) : name[j] # "."
                 THEN SubSeq(name, dotIndex, Len(name))
                 ELSE <<>>

get_language_from_ext(ext) ==
    LET e == Lower(ext)
        m == [x \in {"py", "js", "ts", "jsx", "tsx", "html", "css", "scss",
                     "json", "md", "txt", "sh", "sql", "java", "c", "cpp",
                     "go", "rs", "php", "rb", "yml", "yaml", "xml",
                     "dockerfile", "gitignore"} |->
                CASE x = "py" -> "python"
                  [] x = "js" -> "javascript"
                  [] x = "ts" -> "typescript"
                  [] x = "md" -> "markdown"
                  [] x = "txt" -> "text"
                  [] x = "sh" -> "bash"
                  [] x = "rs" -> "rust"
                  [] x = "rb" -> "ruby"
                  [] x = "yml" -> "yaml"
                  [] x = "gitignore" -> "bash"
                  [] OTHER -> x]
    IN  IF Len(e) = 2 /\ e[1] = "." /\ e[2] \in DOMAIN m THEN m[e[2]] ELSE ""

\* "".join(pieces)
RECURSIVE Join(_)
Join(pieces) ==
    IF pieces = <<>> THEN <<>> ELSE Head(pieces) \o Join(Tail(pieces))

\* str.strip(): drop the leading and the trailing whitespace
RECURSIVE LStrip(_)
LStrip(text) ==
    IF text # <<>> /\ IsSpace(Head(text)) THEN LStrip(Tail(text)) ELSE text

RECURSIVE RStrip(_)
RStrip(text) ==
    IF text # <<>> /\ IsSpace(text[Len(text)])
    THEN RStrip(SubSeq(text, 1, Len(text) - 1))
    ELSE text

\* a strip that leaves the trailing whitespace in place
StripLeftOnly(text) == LStrip(text)

Strip(text) == RStrip(LStrip(text))

\* the end of the line that starts at offset pos of data: its newline, or
\* the end of the data
RECURSIVE LineEnd(_, _)
LineEnd(data, pos) ==
    IF pos >= Len(data) \/ data[pos].k = "nl" THEN pos
    ELSE LineEnd(data, pos + 1)

HasBad(text) == \E i \in 1..Len(text) : text[i].k = "bad"

\* fn with key bound to val (the key may be new)
Put(fn, key, val) ==
    [x \in DOMAIN fn \cup {key} |-> IF x = key THEN val ELSE fn[x]]

\* n copies of the text piece
RECURSIVE Rep(_, _)
Rep(piece, n) == IF n = 0 THEN <<>> ELSE piece \o Rep(piece, n - 1)

(* ------------------------- the scanned trees --------------------------- *)
Fragments == { <<SP, TXT, NL>>, <<NL>>, <<BAD, NL>> }

RECURSIVE ContentsUpTo(_)
ContentsUpTo(n) ==
    IF n = 0 THEN { <<>> }
    ELSE LET prev == ContentsUpTo(n - 1)
         IN  prev \cup { c \o g : c \in prev, g \in Fragments }

LongContents ==
    { Rep(<<TXT, NL>>, LINES_TO_COPY),
      Rep(<<TXT, NL>>, LINES_TO_COPY + 1),
      Rep(<<TXT, NL>>, LINES_TO_COPY + 1) \o <<BAD>>,
      Rep(<<NL>>, LINES_TO_COPY) \o <<TXT, NL>> }

Contents == ContentsUpTo(MaxFrags) \cup LongContents

FileNames ==
    { <<"a", ".", "py">>, <<".", "env">>, <<"b", ".", "PNG">>,
      <<".", "png">>, <<"notes">> }

TextFile(text) == [data |-> text, readable |-> TRUE]

(* ------------------------------ state ---------------------------------- *)
VARIABLES
    fs,                \* path -> [data, readable]: the files that exist
    tree,              \* directory -> [dirs, files]: its listing, in order
    outFirst,          \* whether OUTPUT_FILE is listed first in its directory
    pc,                \* "walk", "file", "read", "write" or "done"
    stack,             \* os.walk: the directories still to yield
    root,              \* the directory being processed
    files,             \* its file names not yet processed
    rel_path,          \* the file being read
    handles,           \* the paths open for reading
    pos,               \* tokens of rel_path consumed by the reader
    lines,             \* the lines read from rel_path
    file_count,
    snapshot_content,
    stdout,            \* the operator channel of this run
    run,               \* the number of the run
    fs0,               \* fs when the run started
    walked,            \* directories yielded by os.walk in this run
    seen,              \* file paths taken from a listing in this run
    opened,            \* file paths passed to open() in this run
    consumed,          \* path -> lines taken from it in this run
    wrote,             \* "none", "ok" or "fail": the outcome of the write
    prevDoc            \* the documents written by the earlier runs

vars ==
    << fs, tree, outFirst, pc, stack, root, files, rel_path, handles, pos,
       lines, file_count, snapshot_content, stdout, run, fs0, walked, seen,
       opened, consumed, wrote, prevDoc >>

Report(kind, rel, count) == [k |-> kind, path |-> rel, n |-> count]

\* the listing of the directory of OUTPUT_FILE once that file exists
WithOutput(names, first) ==
    IF \E i \in 1..Len(names) : names[i] = OUTPUT_FILE THEN names
    ELSE IF first THEN <<OUTPUT_FILE>> \o names
    ELSE names \o <<OUTPUT_FILE>>

\* a document an earlier run could have left at OUTPUT_FILE
OldDocument ==
    <<Title, NL, NL, Scraped(1), NL, NL, Rule, NL, NL,
      H2(<< <<"old", ".", "py">> >>), NL, Fence("python"), NL, TXT,
      NL, Fence(""), NL, NL>>

\* what is at OUTPUT_FILE before the run, and where a listing puts it
Olds ==
    { [has |-> FALSE, data |-> <<>>, first |-> FALSE],
      [has |-> TRUE, data |-> <<TXT, NL>>, first |-> FALSE],
      [has |-> TRUE, data |-> OldDocument, first |-> TRUE],
      [has |-> TRUE, data |-> OldDocument, first |-> FALSE] }

\* the state after lines 71-74, in a tree
\*   n1 [code_snapshot.md]  dA/m.PY  dA/dC/x.js  docs/t.txt
InitWith(names, firstFiles, olds) ==
    /\ \E dA \in { <<"src">>, <<"build">> }, dC \in { <<"lib">>, <<"bin">> },
          n1 \in names, f1 \in firstFiles, old \in olds :
        LET dB == <<"docs">>
            n3 == <<"m", ".", "PY">>
            n4 == <<"x", ".", "js">>
            n5 == <<"t", ".", "txt">>
            base == ( <<n1>> :> f1 )
                    @@ ( <<dA, n3>> :> TextFile(<<TXT, NL>>) )
                    @@ ( <<dA, dC, n4>> :> TextFile(<<TXT, SP, TXT, NL, TXT>>) )
                    @@ ( <<dB, n5>> :> TextFile(<<SP, TXT>>) )
            rootFiles == IF old.has THEN WithOutput(<<n1>>, old.first)
                         ELSE <<n1>>
        IN  /\ fs = IF old.has
                    THEN Put(base, <<OUTPUT_FILE>>, TextFile(old.data))
                    ELSE base
            /\ tree = ( <<>> :> [dirs |-> <<dA, dB>>, files |-> rootFiles] )
                      @@ ( <<dA>> :> [dirs |-> <<dC>>, files |-> <<n3>>] )
                      @@ ( <<dA, dC>> :> [dirs |-> <<>>, files |-> <<n4>>] )
                      @@ ( <<dB>> :> [dirs |-> <<>>, files |-> <<n5>>] )
            /\ outFirst = old.first
    /\ pc = "walk"
    /\ stack = << START_DIR >>
    /\ root = START_DIR
    /\ files = <<>>
    /\ rel_path = <<>>
    /\ handles = {}
    /\ pos = 0
    /\ lines = <<>>
    /\ file_count = 0
    /\ snapshot_content = <<>>
    /\ stdout = << Report("start", <<>>, 0) >>
    /\ run = 1
    /\ fs0 = fs
    /\ walked = {}
    /\ seen = <<>>
    /\ opened = <<>>
    /\ consumed = << >>
    /\ wrote = "none"
    /\ prevDoc = <<>>

FirstFiles ==
    { TextFile(c) : c \in Contents }
    \cup { [data |-> <<TXT, NL>>, readable |-> FALSE] }

Init == InitWith(FileNames, FirstFiles, Olds)

\* fewer trees, for the runs that are repeated or checked for their end
InitSmall ==
    InitWith({ <<"a", ".", "py">>, <<".", "env">> },
             { TextFile(c) : c \in ContentsUpTo(1) },
             { [has |-> FALSE, data |-> <<>>, first |-> b] : b \in BOOLEAN }
                 \cup Olds)

(* ----------------------------- traversal ------------------------------- *)
\* a walk that prunes nothing
PruneNothing(dirs) == dirs

\* dirs[:] = [d for d in dirs if d not in EXCLUDE_DIRS]
Prune(dirs) == SelectSeq(dirs, LAMBDA d : d \notin EXCLUDE_DIRS)

\* the directories os.walk descends into from directory d, in order
Children(d, dirs) == [i \in 1..Len(dirs) |-> Append(d, dirs[i])]

\* os.walk yields the next directory; the loop body prunes its dirs, and
\* the walk will descend into the remaining ones before it goes on
Walk ==
    /\ pc = "walk"
    /\ stack # <<>>
    /\ LET d == Head(stack)
       IN  /\ root' = d
           /\ files' = tree[d].files
           /\ stack' = Children(d, Prune(tree[d].dirs)) \o Tail(stack)
           /\ walked' = walked \cup {d}
    /\ pc' = "file"
    /\ UNCHANGED << fs, tree, outFirst, rel_path, handles, pos, lines,
                    file_count, snapshot_content, stdout, run, fs0, seen,
                    opened, consumed, wrote, prevDoc >>

\* the files of the directory are done: back to os.walk
EndDir ==
    /\ pc = "file"
    /\ files = <<>>
    /\ pc' = "walk"
    /\ UNCHANGED << fs, tree, outFirst, stack, root, files, rel_path,
                    handles, pos, lines, file_count, snapshot_content,
                    stdout, run, fs0, walked, seen, opened, consumed, wrote,
                    prevDoc >>

\* os.walk is exhausted
EndWalk ==
    /\ pc = "walk"
    /\ stack = <<>>
    /\ pc' = "write"
    /\ UNCHANGED << fs, tree, outFirst, stack, root, files, rel_path,
                    handles, pos, lines, file_count, snapshot_content,
                    stdout, run, fs0, walked, seen, opened, consumed, wrote,
                    prevDoc >>

(* ------------------------- classify and open --------------------------- *)
Excluded(filename) ==
    \/ filename \in EXCLUDE_FILES
    \/ Lower(SplitExt(filename)) \in BINARY_EXTENSIONS

\* the next file name of the directory: the two exclusion checks, then
\* open(); an open() that raises is reported and the loop goes on
NextFile ==
    /\ pc = "file"
    /\ files # <<>>
    /\ LET filename == Head(files)
           rel == Append(root, filename)
       IN  /\ files' = Tail(files)
           /\ seen' = Append(seen, rel)
           /\ IF Excluded(filename)
              THEN /\ pc' = "file"
                   /\ UNCHANGED << rel_path, handles, pos, lines, stdout,
                                   opened, consumed >>
              ELSE /\ opened' = Append(opened, rel)
                   /\ IF fs[rel].readable
                      THEN /\ pc' = "read"
                           /\ rel_path' = rel
                           /\ handles' = handles \cup {rel}
                           /\ pos' = 0
                           /\ lines' = <<>>
                           /\ consumed' = Put(consumed, rel, 0)
                           /\ UNCHANGED stdout
                      ELSE /\ pc' = "file"
                           /\ stdout' = Append(stdout, Report("skiperr", rel, 0))
                           /\ UNCHANGED << rel_path, handles, pos, lines,
                                           consumed >>
    /\ UNCHANGED << fs, tree, outFirst, stack, root, file_count,
                    snapshot_content, run, fs0, walked, wrote, prevDoc >>

(* ------------------------------ read ----------------------------------- *)
\* a slice that is one line too long
WantsLineInclusive(taken) == Len(taken) <= LINES_TO_COPY

\* whether islice(f, LINES_TO_COPY) asks the file for one more line
WantsLine(taken) == Len(taken) < LINES_TO_COPY

\* a reader whose decode error is swallowed without a report
ReadLineSilent ==
    /\ pc = "read"
    /\ Len(lines) < LINES_TO_COPY
    /\ pos < Len(fs[rel_path].data)
    /\ LET data == fs[rel_path].data
           end == LineEnd(data, pos + 1)
           line == SubSeq(data, pos + 1, end)
           rest == SubSeq(data, end + 1, Len(data))
       IN  \/ /\ ~HasBad(line)
              /\ lines' = Append(lines, line)
              /\ pos' = end
              /\ consumed' = Put(consumed, rel_path, Len(lines) + 1)
              /\ UNCHANGED << pc, rel_path, handles, stdout >>
           \/ /\ HasBad(line) \/ HasBad(rest)
              /\ handles' = handles \ {rel_path}
              /\ pc' = "file"
              /\ rel_path' = <<>>
              /\ lines' = <<>>
              /\ pos' = 0
              /\ UNCHANGED << consumed, stdout >>
    /\ UNCHANGED << fs, tree, outFirst, stack, root, files, file_count,
                    snapshot_content, run, fs0, walked, seen, opened, wrote,
                    prevDoc >>

\* one step of islice(f, LINES_TO_COPY): the next line of the file.  The
\* decoder raises on an undecodable byte in that line; it reads ahead in
\* blocks, so that a byte further on may raise already or not yet.
ReadLine ==
    /\ pc = "read"
    /\ WantsLine(lines)
    /\ pos < Len(fs[rel_path].data)
    /\ LET data == fs[rel_path].data
           end == LineEnd(data, pos + 1)
           line == SubSeq(data, pos + 1, end)
           rest == SubSeq(data, end + 1, Len(data))
       IN  \/ /\ ~HasBad(line)
              /\ lines' = Append(lines, line)
              /\ pos' = end
              /\ consumed' = Put(consumed, rel_path, Len(lines) + 1)
              /\ UNCHANGED << pc, rel_path, handles, stdout >>
           \/ /\ HasBad(line) \/ HasBad(rest)
              /\ stdout' = Append(stdout, Report("skipbin", rel_path, 0))
              /\ handles' = handles \ {rel_path}
              /\ pc' = "file"
              /\ rel_path' = <<>>
              /\ lines' = <<>>
              /\ pos' = 0
              /\ UNCHANGED consumed
    /\ UNCHANGED << fs, tree, outFirst, stack, root, files, file_count,
                    snapshot_content, run, fs0, walked, seen, opened, wrote,
                    prevDoc >>

\* the four pieces appended for one file
Block(rel, ext, taken) ==
    << <<H2(rel), NL>>,
       <<Fence(get_language_from_ext(ext)), NL>>,
       Strip(Join(taken)),
       <<NL, Fence(""), NL, NL>> >>

\* a check that also skips the files whose excerpt is blank
SkippedBlank(taken) == Strip(Join(taken)) = <<>>

\* if not lines: continue
Skipped(taken) == taken = <<>>

\* a block put in front of the accumulator
Prepended(acc, block) == block \o acc

\* the four snapshot_content.append calls
Appended(acc, block) == acc \o block

\* the lines are in: an empty list is skipped, anything else is counted and
\* appended; the with block closes the file
Finish ==
    /\ pc = "read"
    /\ ~WantsLine(lines) \/ pos >= Len(fs[rel_path].data)
    /\ IF Skipped(lines)
       THEN UNCHANGED << file_count, snapshot_content >>
       ELSE /\ file_count' = file_count + 1
            /\ snapshot_content' =
                   Appended(snapshot_content,
                            Block(rel_path, SplitExt(rel_path[Len(rel_path)]),
                                  lines))
    /\ handles' = handles \ {rel_path}
    /\ pc' = "file"
    /\ rel_path' = <<>>
    /\ lines' = <<>>
    /\ pos' = 0
    /\ UNCHANGED << fs, tree, outFirst, stack, root, files, stdout, run, fs0,
                    walked, seen, opened, consumed, wrote, prevDoc >>

(* ------------------------------ write ---------------------------------- *)
\* a header that counts the pieces of the accumulator instead of the files
WritesPieceCount(count, pieces) ==
    << <<Title, NL, NL>>,
       <<Scraped(Len(pieces)), NL, NL>>,
       <<Rule, NL, NL>>,
       Join(pieces) >>

\* how many of the four writes a failing run may have completed
PartialWrites == {0, 3}

\* the four f.write calls
Writes(count, pieces) ==
    << <<Title, NL, NL>>,
       <<Scraped(count), NL, NL>>,
       <<Rule, NL, NL>>,
       Join(pieces) >>

\* a run whose summary is printed after the try block, failure or not
WriteThenSummary ==
    /\ pc = "write"
    /\ LET w == << <<Title, NL, NL>>, <<Scraped(file_count), NL, NL>>,
                   <<Rule, NL, NL>>, Join(snapshot_content) >>
           out == << OUTPUT_FILE >>
           listed == [tree EXCEPT ![START_DIR].files =
                          WithOutput(tree[START_DIR].files, outFirst)]
           summary == << Report("success", <<>>, file_count),
                         Report("saved", out, 0) >>
       IN  \/ /\ fs' = Put(fs, out, TextFile(Join(w)))
              /\ tree' = listed
              /\ wrote' = "ok"
              /\ stdout' = stdout \o summary
           \/ /\ UNCHANGED << fs, tree >>
              /\ wrote' = "fail"
              /\ stdout' = Append(stdout, Report("writeerr", out, 0)) \o summary
           \/ \E done \in PartialWrites :
                /\ fs' = Put(fs, out, TextFile(Join(SubSeq(w, 1, done))))
                /\ tree' = listed
                /\ wrote' = "fail"
                /\ stdout' = Append(stdout, Report("writeerr", out, 0))
                                 \o summary
    /\ pc' = "done"
    /\ UNCHANGED << outFirst, stack, root, files, rel_path, handles, pos,
                    lines, file_count, snapshot_content, run, fs0, walked,
                    seen, opened, consumed, prevDoc >>

\* the output file is opened for writing and written: all of it, or open()
\* raises and nothing changes, or a write raises and the truncated file
\* holds the writes before it; then the report
Write ==
    /\ pc = "write"
    /\ LET w == Writes(file_count, snapshot_content)
           out == << OUTPUT_FILE >>
           listed == [tree EXCEPT ![START_DIR].files =
                          WithOutput(tree[START_DIR].files, outFirst)]
       IN  \/ /\ fs' = Put(fs, out, TextFile(Join(w)))
              /\ tree' = listed
              /\ wrote' = "ok"
              /\ stdout' = stdout \o << Report("success", <<>>, file_count),
                                        Report("saved", out, 0) >>
           \/ /\ UNCHANGED << fs, tree >>
              /\ wrote' = "fail"
              /\ stdout' = Append(stdout, Report("writeerr", out, 0))
           \/ \E done \in PartialWrites :
                /\ fs' = Put(fs, out, TextFile(Join(SubSeq(w, 1, done))))
                /\ tree' = listed
                /\ wrote' = "fail"
                /\ stdout' = Append(stdout, Report("writeerr", out, 0))
    /\ pc' = "done"
    /\ UNCHANGED << outFirst, stack, root, files, rel_path, handles, pos,
                    lines, file_count, snapshot_content, run, fs0, walked,
                    seen, opened, consumed, prevDoc >>

\* the program is run again on the tree as the last run left it
Rerun ==
    /\ pc = "done"
    /\ run < MaxRuns
    /\ run' = run + 1
    /\ prevDoc' = IF wrote = "ok"
                  THEN Append(prevDoc, fs[<< OUTPUT_FILE >>].data)
                  ELSE prevDoc
    /\ fs0' = fs
    /\ pc' = "walk"
    /\ stack' = << START_DIR >>
    /\ root' = START_DIR
    /\ files' = <<>>
    /\ file_count' = 0
    /\ snapshot_content' = <<>>
    /\ stdout' = << Report("start", <<>>, 0) >>
    /\ walked' = {}
    /\ seen' = <<>>
    /\ opened' = <<>>
    /\ consumed' = << >>
    /\ wrote' = "none"
    /\ UNCHANGED << fs, tree, outFirst, rel_path, handles, pos, lines >>

Next ==
    \/ Walk
    \/ EndDir
    \/ EndWalk
    \/ NextFile
    \/ ReadLine
    \/ Finish
    \/ Write

\* one run
Spec == Init /\ [][Next]_vars

\* one run of the sequential program, which takes its next step
FairSpec == InitSmall /\ [][Next]_vars /\ WF_vars(Next)

NextRerun ==
    \/ Next
    \/ Rerun

\* runs repeated on the tree as the run before left it
SpecRerun == InitSmall /\ [][NextRerun]_vars

(* ======================= properties of a run =========================== *)
Range(seq) == { seq[i] : i \in DOMAIN seq }

NumBlocks == Len(snapshot_content) \div 4

HeadingOf(i) == snapshot_content[4 * i - 3]

ExcerptOf(i) == snapshot_content[4 * i - 1]

\* the sections of the accumulated output whose heading is path p
SectionsOf(p) == { i \in 1..NumBlocks : HeadingOf(i) = <<H2(p), NL>> }

\* the skip reports on the operator channel that name path p
ReportsOf(p) ==
    { i \in DOMAIN stdout :
        stdout[i].k \in {"skipbin", "skiperr"} /\ stdout[i].path = p }

\* the offset at which the first min(n, total) lines of data end, counted
\* from offset from
RECURSIVE EndOfLines(_, _, _)
EndOfLines(data, from, n) ==
    IF n = 0 \/ from >= Len(data) THEN from
    ELSE EndOfLines(data, LineEnd(data, from + 1), n - 1)

\* the first min(n, total) lines of data
FirstLines(data, n) == SubSeq(data, 1, EndOfLines(data, 0, n))

\* e is text without its leading and trailing whitespace
IsTrimOf(e, text) ==
    \E i \in 1..(Len(text) + 1), j \in 0..Len(text) :
        /\ e = SubSeq(text, i, j)
        /\ \A x \in 1..(i - 1) : IsSpace(text[x])
        /\ \A x \in (j + 1)..Len(text) : IsSpace(text[x])
        /\ e # <<>> => ~IsSpace(e[1]) /\ ~IsSpace(e[Len(e)])

NameExcluded(p) == p[Len(p)] \in EXCLUDE_FILES

ExtBinary(p) == Lower(SplitExt(p[Len(p)])) \in BINARY_EXTENSIONS

UnderExcludedDir(p) == \E i \in 1..(Len(p) - 1) : p[i] \in EXCLUDE_DIRS

InNoExclusionSet(p) ==
    ~NameExcluded(p) /\ ~ExtBinary(p) /\ ~UnderExcludedDir(p)

\* the traversal is over
Traversed == pc \in {"write", "done"}

\* path p has exactly one section, and it holds the first lines of the file
\* as scanned, trimmed
HasItsSection(p) ==
    /\ Cardinality(SectionsOf(p)) = 1
    /\ \A i \in SectionsOf(p) :
           IsTrimOf(ExcerptOf(i), FirstLines(fs0[p].data, LINES_TO_COPY))

\* C1, as stated: once the traversal is over, every file of the tree that is
\* in no exclusion set and holds only decodable text has exactly one section
\* headed by its relative path, whose excerpt is its first
\* min(LINES_TO_COPY, total) lines, trimmed.
C1_AsStated ==
    Traversed =>
        \A p \in DOMAIN fs0 :
            InNoExclusionSet(p) /\ ~HasBad(fs0[p].data) => HasItsSection(p)

\* C1, amended: the same for every such file that can be opened and has at
\* least one line.
C1_NonEmptyFilesHaveTheirSection ==
    Traversed =>
        \A p \in DOMAIN fs0 :
            /\ InNoExclusionSet(p)
            /\ ~HasBad(fs0[p].data)
            /\ fs0[p].readable
            /\ fs0[p].data # <<>>
            => HasItsSection(p)

\* a file longer than LINES_TO_COPY lines and one with blank lines around its
\* text have been cut and trimmed into their sections
C1_Witness ==
    /\ pc = "done"
    /\ \E p \in DOMAIN fs0 :
           /\ SectionsOf(p) # {}
           /\ FirstLines(fs0[p].data, LINES_TO_COPY) # fs0[p].data
    /\ \E q \in DOMAIN fs0 :
           /\ SectionsOf(q) # {}
           /\ \A i \in SectionsOf(q) :
                  ExcerptOf(i) # FirstLines(fs0[q].data, LINES_TO_COPY)

\* C2: no file with an excluded name, a binary extension or an excluded
\* directory above it has been opened, has a section or is named in a skip
\* report, and no excluded directory or path under one has been visited.
C2_ExcludedNeverTouched ==
    /\ \A p \in DOMAIN fs :
           NameExcluded(p) \/ ExtBinary(p) \/ UnderExcludedDir(p) =>
               /\ p \notin Range(opened)
               /\ p \notin handles
               /\ SectionsOf(p) = {}
               /\ ReportsOf(p) = {}
    /\ \A d \in walked \cup Range(stack) :
           \A i \in 1..Len(d) : d[i] \notin EXCLUDE_DIRS
    /\ \A p \in Range(seen) : ~UnderExcludedDir(p)

\* a run is over on a tree with an excluded directory that has a file in a
\* subdirectory, and with a file excluded by its name or its extension
C2_Witness ==
    /\ pc = "done"
    /\ \E p \in DOMAIN fs : Len(p) = 3 /\ p[1] \in EXCLUDE_DIRS
    /\ \E p \in DOMAIN fs : NameExcluded(p) \/ ExtBinary(p)

\* C3, as stated: the document a run writes equals the document the run
\* before it wrote.
C3_SecondRunSameDocument ==
    pc = "done" /\ wrote = "ok" /\ prevDoc # <<>> =>
        fs[<< OUTPUT_FILE >>].data = prevDoc[Len(prevDoc)]

\* C4, as stated: when the run is over, every file other than the output
\* file is as it was, and so is every file the traversal visited or opened.
C4_ScannedFilesUnchanged ==
    pc = "done" =>
        /\ \A p \in DOMAIN fs0 :
               p # << OUTPUT_FILE >> => p \in DOMAIN fs /\ fs[p] = fs0[p]
        /\ \A p \in Range(seen) \cup Range(opened) :
               p \in DOMAIN fs /\ fs[p] = fs0[p]

\* C5: the accumulator holds one block of four pieces, the first a heading,
\* for each file counted, and a document written whole is the header with
\* that number of blocks as its count, followed by the blocks.
C5_CountMatchesSections ==
    /\ Len(snapshot_content) = 4 * file_count
    /\ \A i \in 1..NumBlocks :
           Len(HeadingOf(i)) = 2 /\ HeadingOf(i)[1].k = "h2"
    /\ pc = "done" /\ wrote = "ok" =>
           fs[<< OUTPUT_FILE >>].data =
               <<Title, NL, NL, Scraped(NumBlocks), NL, NL, Rule, NL, NL>>
                   \o Join(snapshot_content)

\* a document with two sections or more is written after a run that opened
\* more files than it counted
C5_Witness ==
    /\ pc = "done"
    /\ wrote = "ok"
    /\ file_count >= 2
    /\ Len(opened) > file_count

\* open() has been called on p and p is not open any more
Finished(p) == p \in Range(opened) /\ p \notin handles

\* every file outside the excluded directories has been taken from a
\* listing, once, and open() was called once on each one that is in no
\* exclusion set
AllFilesProcessed ==
    /\ \A p \in DOMAIN fs0 :
           /\ ~UnderExcludedDir(p) =>
                  Cardinality({ i \in DOMAIN seen : seen[i] = p }) = 1
           /\ InNoExclusionSet(p) =>
                  Cardinality({ i \in DOMAIN opened : opened[i] = p }) = 1

\* C6, as stated: a file with undecodable bytes or one that cannot be opened
\* has exactly one skip report and no section, any other file has no skip
\* report, and the traversal ends with every file processed.
C6_AsStated ==
    /\ \A p \in Range(opened) :
           Finished(p) =>
               IF HasBad(fs0[p].data) \/ ~fs0[p].readable
               THEN Cardinality(ReportsOf(p)) = 1 /\ SectionsOf(p) = {}
               ELSE ReportsOf(p) = {}
    /\ Traversed => AllFilesProcessed

\* C6, amended: a file that cannot be opened or has an undecodable byte in
\* its first LINES_TO_COPY lines has exactly one skip report and no section;
\* a file whose undecodable bytes all lie further on has either one skip
\* report or a section, never both; a file without such bytes that can be
\* opened has no skip report; and the traversal ends with every file
\* processed.
C6_ErrorsSkipAndReport ==
    /\ \A p \in Range(opened) :
           Finished(p) =>
               /\ Cardinality(ReportsOf(p)) <= 1
               /\ ReportsOf(p) # {} => SectionsOf(p) = {}
               /\ \/ ~fs0[p].readable
                  \/ HasBad(FirstLines(fs0[p].data, LINES_TO_COPY))
                  => ReportsOf(p) # {}
               /\ HasBad(fs0[p].data) => ReportsOf(p) # {} \/ SectionsOf(p) # {}
               /\ fs0[p].readable /\ ~HasBad(fs0[p].data) => ReportsOf(p) = {}
    /\ Traversed => AllFilesProcessed

\* the first file opened had undecodable bytes and was reported, and a file
\* opened after it has its section
C6_Witness ==
    /\ pc = "done"
    /\ opened # <<>>
    /\ HasBad(fs0[opened[1]].data)
    /\ ReportsOf(opened[1]) # {}
    /\ \E i \in 2..Len(opened) : SectionsOf(opened[i]) # {}

\* C7: of the files open() was called on, those without a section and
\* without a skip report are exactly the readable files with no line, and
\* file_count counts exactly the files with a section.
C7_OnlyEmptyFilesDroppedSilently ==
    /\ \A p \in Range(opened) :
           Finished(p) =>
               ( SectionsOf(p) = {} /\ ReportsOf(p) = {}
                   <=> fs0[p].readable /\ fs0[p].data = <<>> )
    /\ file_count =
           Cardinality({ p \in Range(opened) : SectionsOf(p) # {} })

\* an empty file was opened and dropped, and a file of blank lines only has
\* a section with an empty excerpt
C7_Witness ==
    /\ pc = "done"
    /\ \E p \in Range(opened) :
           fs0[p].readable /\ fs0[p].data = <<>> /\ SectionsOf(p) = {}
    \/ /\ pc = "done"
       /\ \E i \in 1..NumBlocks : ExcerptOf(i) = <<>>
       /\ Len(opened) > file_count

TerminalReports ==
    { i \in DOMAIN stdout : stdout[i].k \in {"success", "writeerr"} }

\* the reports that end a run: none before the write; after it, one: the
\* error line if the write failed, else the summary with the number of
\* sections and the line with the output path, and nothing after them
TerminalReportOK ==
    /\ pc # "done" =>
           \A i \in DOMAIN stdout :
               stdout[i].k \notin {"success", "saved", "writeerr"}
    /\ pc = "done" =>
           /\ Cardinality(TerminalReports) = 1
           /\ IF wrote = "ok"
              THEN /\ Len(stdout) >= 2
                   /\ stdout[Len(stdout) - 1] =
                          Report("success", <<>>, NumBlocks)
                   /\ stdout[Len(stdout)] = Report("saved", << OUTPUT_FILE >>, 0)
              ELSE /\ wrote = "fail"
                   /\ stdout[Len(stdout)] =
                          Report("writeerr", << OUTPUT_FILE >>, 0)
                   /\ \A i \in DOMAIN stdout :
                          stdout[i].k \notin {"success", "saved"}

\* C8: every run comes to its end, with exactly one terminal report after
\* the traversal: the error line and no summary if the write failed, the
\* summary and no error line if it succeeded, whatever files were skipped.
C8_OneTerminalReport == []TerminalReportOK /\ <>(pc = "done")

\* runs have ended in a failed write and in a summary after a skip report
C8_Witness ==
    /\ pc = "done"
    /\ \E i \in DOMAIN stdout : stdout[i].k \in {"skipbin", "skiperr"}
    /\ wrote = "ok"

IsPrefix(a, b) == Len(a) <= Len(b) /\ a = SubSeq(b, 1, Len(a))

\* the place of path p in the order of discovery
SeenIndex(p) == CHOOSE i \in DOMAIN seen : seen[i] = p

SectionsInDiscoveryOrder ==
    \A i, j \in 1..NumBlocks :
        /\ HeadingOf(i)[1].path \in Range(seen)
        /\ i < j <=>
               SeenIndex(HeadingOf(i)[1].path) < SeenIndex(HeadingOf(j)[1].path)

\* C9: the sections are in the order in which the traversal yielded their
\* files, and a step only ever appends to the accumulator.
C9_DiscoveryOrder ==
    /\ []SectionsInDiscoveryOrder
    /\ [][IsPrefix(snapshot_content, snapshot_content')]_vars

\* three sections from three directories, the output file of an earlier run
\* among them
C9_Witness ==
    /\ pc = "done"
    /\ NumBlocks >= 3
    /\ SectionsOf(<< OUTPUT_FILE >>) # {}

\* C10: no file has had more than LINES_TO_COPY lines taken from it, and the
\* only file open is the one being read.
C10_AtMostNLines ==
    /\ \A p \in DOMAIN consumed : consumed[p] <= LINES_TO_COPY
    /\ Len(lines) <= LINES_TO_COPY
    /\ Cardinality(handles) <= 1
    /\ handles = IF pc = "read" THEN {rel_path} ELSE {}

\* a file of more than LINES_TO_COPY lines has been read and closed
C10_Witness ==
    /\ handles = {}
    /\ \E p \in DOMAIN consumed :
           /\ consumed[p] = LINES_TO_COPY
           /\ FirstLines(fs0[p].data, LINES_TO_COPY) # fs0[p].data

====
